---- MODULE Spec2Model ----
(***************************************************************************)
(* Turn controller of frontend/src/components/ChessGame.tsx: the React     *)
(* component state (gameState), its refs, the requests it has issued to    *)
(* /get_move_stream and /draw_response, and its timers.                    *)
(*                                                                         *)
(* One step of the model is one task of the browser's event loop together  *)
(* with the microtasks and the React render/effect pass it causes: a user  *)
(* click, a timer callback, or the arrival of a piece of a response.       *)
(* The rules engine (chess.js) is outside the repository: its answer to a  *)
(* move is an input of the step.                                           *)
(***************************************************************************)
EXTENDS Integers, Sequences, FiniteSets, TLC

VARIABLES
    gameState,           \* useState<GameState>, ChessGame.tsx:60-85; game is
                         \* its history and how its position stands
    abortControllerRef,  \* id of the request owning the current AbortController, 0 = null
    thinkingOutputRef,   \* useRef<string>, as the sequence of deltas appended
    errorTimeoutRef,     \* id of the last error-clear timeout created, 0 = null
    errorTimers,         \* the error-clear timeouts that are pending
    requests,            \* every request issued so far, by id (1..Len)
    autoTimer,           \* the pending timeout of the auto-play effect
    lastOp,              \* history: the step taken last
    rejectedFor,         \* history: color whose move was rejected, no request since
    decoder              \* the read loop of one response stream taken apart:
                         \* its text, how much of it was read, and buffer

vars == <<gameState, abortControllerRef, thinkingOutputRef, errorTimeoutRef,
          errorTimers, requests, autoTimer, lastOp, rejectedFor, decoder>>

----------------------------------------------------------------------------
(* Bounds of the model *)

\* requests issued in one run
MaxReq == 3
\* event lines delivered by one response stream
MaxEvents == 2
\* thinking_delta events among them
MaxDeltas == 1

----------------------------------------------------------------------------
(* Values *)

Colors == {"white", "black"}

\* the selections tried: one model for each color
Selections == {<<"white", "claude-opus-4-20250514">>, <<"black", "o4-mini">>}

\* the outcomes of the shuffle tried: its first two entries are different models
Shuffles == {<<"claude-opus-4-20250514", "o4-mini">>}

\* MODELS: every entry satisfies one of the tests of supportsStreaming
StreamingModels ==
    {"claude-opus-4-20250514", "claude-sonnet-4-20250514", "o4-mini",
     "gemini-2.5-pro-preview-05-06", "gemini-2.5-flash-preview-05-20",
     "grok-3-mini"}

supportsStreaming(model) == model \in StreamingModels

\* notated moves a model may return
Moves == {"e4"}

\* thinking_tokens of a result
TokenValues == {7}

\* elapsed time of a request (endTime - startTime)
Durations == {1}

Opposite(c) == IF c = "white" THEN "black" ELSE "white"

NoResult == "null"

\* a resignation that names the resigning color as the winner
ResignResultForResigner(player) ==
    IF player = "white" THEN "Black resigned. White wins!"
                        ELSE "White resigned. Black wins!"

ResignResult(player) ==
    IF player = "white" THEN "White resigned. Black wins!"
                        ELSE "Black resigned. White wins!"

\* a checkmate that names the mated color as the winner
CheckmateResultForMated(player) ==
    IF player = "white" THEN "Black wins by checkmate!"
                        ELSE "White wins by checkmate!"

CheckmateResult(player) ==
    IF player = "white" THEN "White wins by checkmate!"
                        ELSE "Black wins by checkmate!"

RulesDrawResult == "Game ends in a draw!"

AgreedDrawResult == "Game ends in a draw by agreement!"

NoDrawOffer == [offered |-> FALSE, offeredBy |-> "null"]

\* the payload of a result event: { move?, action?, thinking_tokens? }
ResultData ==
    [action : {"none", "resign", "draw_offer"}, move : {"none"}, tokens : TokenValues]
    \cup [action : {"none"}, move : Moves, tokens : TokenValues]

\* the body of a /draw_response answer
DrawData == [action : {"draw_accept", "draw_decline"}, tokens : TokenValues]

\* what the rules engine answers to move(): it throws, returns no move, or
\* returns the move made, with what it captured and how the game stands
EngineAnswers ==
    [kind : {"throw", "null"}, captured : {FALSE}, over : {"no"}]
    \cup [kind : {"ok"}, captured : BOOLEAN,
          over : {"no", "checkmate", "stalemate", "draw"}]

\* the queries of the rules engine on a position: the game is over by
\* checkmate, stalemate or another draw, and a stalemate counts as a draw
isGameOver(over) == over # "no"

isCheckmate(over) == over = "checkmate"

isDraw(over) == over \in {"stalemate", "draw"}

InitialGameState ==
    [ history              |-> << >>,
      position             |-> "no",
      isGameStarted        |-> FALSE,
      isGameOver           |-> FALSE,
      currentPlayer        |-> "white",
      whiteModel           |-> "",
      blackModel           |-> "",
      isThinking           |-> FALSE,
      gameResult           |-> NoResult,
      isPaused             |-> FALSE,
      capturedPieces       |-> [white |-> << >>, black |-> << >>],
      moveThinkingTokens   |-> << >>,
      moveTimes            |-> << >>,
      drawOffer            |-> NoDrawOffer,
      awaitingDrawResponse |-> FALSE,
      thinkingOutput       |-> << >>,
      isStreaming          |-> FALSE,
      errorMessage         |-> << >>,
      lastMove             |-> << >> ]

NoTimer == [kind |-> "none", model |-> "", player |-> "white",
            isGameOver |-> FALSE, isThinking |-> FALSE, history |-> << >>]

\* the step taken last: its branch, the request it belongs to, the request it
\* cancelled (0: none) and, for a new request, the color of a rejected move
\* it follows
StepOp(name, r, cancelled, retry) ==
    [op |-> name, req |-> r, aborts |-> cancelled, retry |-> retry]

Op(name, r) == StepOp(name, r, 0, "none")

----------------------------------------------------------------------------
(* The auto-play effect *)

\* the dependency list of the effect; makeMove is re-created when isGameOver,
\* isThinking or game change
\* a dependency list without isPaused
EffectDepsNoPause(gs) ==
    << gs.currentPlayer, gs.isGameStarted, gs.isGameOver, gs.isThinking,
       gs.awaitingDrawResponse, gs.whiteModel, gs.blackModel, gs.history >>

\* a dependency list without isThinking
EffectDepsNoThinking(gs) ==
    << gs.currentPlayer, gs.isGameStarted, gs.isGameOver, gs.isPaused,
       gs.awaitingDrawResponse, gs.whiteModel, gs.blackModel, gs.history >>

EffectDeps(gs) ==
    << gs.currentPlayer, gs.isGameStarted, gs.isGameOver, gs.isThinking,
       gs.isPaused, gs.awaitingDrawResponse, gs.whiteModel, gs.blackModel,
       gs.history >>

\* an effect body that does not look at isPaused
EffectTimerIgnoresPause(gs) ==
    LET currentModel == IF gs.currentPlayer = "white" THEN gs.whiteModel
                                                      ELSE gs.blackModel
    IN  IF gs.isGameStarted /\ ~gs.isGameOver /\ ~gs.isThinking
           /\ currentModel # ""
        THEN [ kind       |-> IF gs.awaitingDrawResponse THEN "draw" ELSE "move",
               model      |-> currentModel,
               player     |-> gs.currentPlayer,
               isGameOver |-> gs.isGameOver,
               isThinking |-> gs.isThinking,
               history    |-> gs.history ]
        ELSE NoTimer

\* the timeout the effect body sets, with the values its callback closes over
EffectTimer(gs) ==
    LET currentModel == IF gs.currentPlayer = "white" THEN gs.whiteModel
                                                      ELSE gs.blackModel
    IN  IF gs.isGameStarted /\ ~gs.isGameOver /\ ~gs.isThinking /\ ~gs.isPaused
           /\ currentModel # ""
        THEN [ kind       |-> IF gs.awaitingDrawResponse THEN "draw" ELSE "move",
               model      |-> currentModel,
               player     |-> gs.currentPlayer,
               isGameOver |-> gs.isGameOver,
               isThinking |-> gs.isThinking,
               history    |-> gs.history ]
        ELSE NoTimer

\* a render: the effect is cleaned up and run again only when a dependency changed
Render(old, new, timer) ==
    IF EffectDeps(new) # EffectDeps(old) THEN EffectTimer(new) ELSE timer

----------------------------------------------------------------------------
(* Requests *)

NewRequest(kind, model, player, history, interval) ==
    [ kind       |-> kind,
      model      |-> model,
      player     |-> player,
      history    |-> history,
      phase      |-> "fetching",
      aborted    |-> FALSE,
      interval   |-> interval,
      events     |-> 0,
      deltas     |-> 0,
      resultSeen |-> FALSE ]

\* a call of makeMove or handleDrawResponse that has returned: of what it held
\* only its interval, if it was left running, can still act; aborted is kept
\* for a call that left its interval running
Returned(q, aborted, interval) ==
    [ kind       |-> "returned",
      model      |-> "",
      player     |-> "white",
      history    |-> << >>,
      phase      |-> "done",
      aborted    |-> aborted /\ interval,
      interval   |-> interval,
      events     |-> 0,
      deltas     |-> 0,
      resultSeen |-> FALSE ]

Open(r) == requests[r].phase # "done"

OpenRequests == {r \in DOMAIN requests : Open(r)}

\* AbortController.abort(): a pending fetch rejects with AbortError (the catch
\* clears the interval and returns); a pending reader.read() rejects too, and
\* the catch around the read loop swallows it
\* an abort that a request in its read loop does not notice
AbortedRequestStillReading(q) ==
    IF q.phase = "fetching" THEN Returned(q, TRUE, FALSE) ELSE q

AbortedRequest(q) ==
    Returned(q, TRUE, IF q.phase = "fetching" THEN FALSE ELSE q.interval)

\* abort() that does not reach the request: its response is still delivered
AbortWithoutEffect(reqs, id) == reqs

Abort(reqs, id) ==
    IF id # 0 /\ reqs[id].phase # "done"
    THEN [reqs EXCEPT ![id] = AbortedRequest(reqs[id])]
    ELSE reqs

\* the request an abort() of the current controller cancels, 0 if it has returned
Cancels == IF abortControllerRef # 0 /\ Open(abortControllerRef)
           THEN abortControllerRef ELSE 0

----------------------------------------------------------------------------
(* makeMove and handleDrawResponse: starting a request *)

\* the duplicate-call guard of makeMove, on the values its closure holds
MakeMoveBlocked(t) == t.isGameOver \/ t.isThinking

\* makeMove without "Cancel any existing request"
MakeMoveRequestsNoCancel(t) ==
    Append(requests,
           NewRequest("move", t.model, t.player, t.history,
                      supportsStreaming(t.model)))

\* the requests after makeMove cancelled the existing one and issued its own
MakeMoveRequests(t) ==
    Append(Abort(requests, abortControllerRef),
           NewRequest("move", t.model, t.player, t.history,
                      supportsStreaming(t.model)))

MakeMoveState(gs, t) ==
    [gs EXCEPT !.isThinking = TRUE,
               !.thinkingOutput = << >>,
               !.isStreaming = supportsStreaming(t.model)]

\* the duplicate-call guard of handleDrawResponse, on the state being updated
DrawResponseBlocked(gs) ==
    gs.isGameOver \/ gs.isThinking \/ ~gs.awaitingDrawResponse

DrawResponseRequests(gs, t) ==
    Append(Abort(requests, abortControllerRef),
           NewRequest("draw", t.model, t.player, gs.history, FALSE))

DrawResponseState(gs) == [gs EXCEPT !.isThinking = TRUE]

\* the auto-play timeout fires and calls makeMove(currentModel, currentPlayer)
makeMove ==
    /\ autoTimer.kind = "move"
    /\ Len(requests) < MaxReq
    /\ IF MakeMoveBlocked(autoTimer)
       THEN /\ UNCHANGED <<gameState, requests, abortControllerRef,
                           thinkingOutputRef, rejectedFor>>
            /\ autoTimer' = NoTimer
            /\ lastOp' = Op("blocked", 0)
       ELSE /\ requests' = MakeMoveRequests(autoTimer)
            /\ abortControllerRef' = Len(requests')
            /\ gameState' = MakeMoveState(gameState, autoTimer)
            /\ thinkingOutputRef' = << >>
            /\ autoTimer' = Render(gameState, gameState', NoTimer)
            /\ lastOp' = StepOp("makeMove", Len(requests'), Cancels, rejectedFor)
            /\ rejectedFor' = "none"
    /\ UNCHANGED <<errorTimeoutRef, errorTimers>>
    /\ UNCHANGED decoder

\* the auto-play timeout fires and calls handleDrawResponse(currentModel, currentPlayer)
handleDrawResponse ==
    /\ autoTimer.kind = "draw"
    /\ Len(requests) < MaxReq
    /\ IF DrawResponseBlocked(gameState)
       THEN /\ UNCHANGED <<gameState, requests, abortControllerRef, rejectedFor>>
            /\ autoTimer' = NoTimer
            /\ lastOp' = Op("blocked", 0)
       ELSE /\ requests' = DrawResponseRequests(gameState, autoTimer)
            /\ abortControllerRef' = Len(requests')
            /\ gameState' = DrawResponseState(gameState)
            /\ autoTimer' = Render(gameState, gameState', NoTimer)
            /\ lastOp' = StepOp("handleDrawResponse", Len(requests'), Cancels,
                                 rejectedFor)
            /\ rejectedFor' = "none"
    /\ UNCHANGED <<thinkingOutputRef, errorTimeoutRef, errorTimers>>
    /\ UNCHANGED decoder

----------------------------------------------------------------------------
(* makeMove: the response of /get_move_stream *)

\* fetch resolves with response.ok and a body: the read loop starts
FetchOk(r) ==
    /\ r \in OpenRequests
    /\ requests[r].kind = "move"
    /\ requests[r].phase = "fetching"
    /\ requests' = [requests EXCEPT ![r].phase = "reading"]
    /\ lastOp' = Op("fetchOk", r)
    /\ UNCHANGED <<gameState, abortControllerRef, thinkingOutputRef,
                   errorTimeoutRef, errorTimers, autoTimer, rejectedFor>>
    /\ UNCHANGED decoder

\* fetch resolves with a non-OK status (or no body): neither branch of
\* makeMove nor of handleDrawResponse does anything
FetchNotOk(r) ==
    /\ r \in OpenRequests
    /\ requests[r].phase = "fetching"
    /\ requests' = [requests EXCEPT ![r] = Returned(@, FALSE, @.interval)]
    /\ lastOp' = Op("fetchNotOk", r)
    /\ UNCHANGED <<gameState, abortControllerRef, thinkingOutputRef,
                   errorTimeoutRef, errorTimers, autoTimer, rejectedFor>>
    /\ UNCHANGED decoder

\* the catch of makeMove for an error that is not an AbortError
MoveFailedState(gs) == [gs EXCEPT !.isThinking = FALSE, !.isStreaming = FALSE]

\* a catch that leaves the offer recorded
DrawFailedStateKeepsOffer(gs) ==
    [gs EXCEPT !.isThinking = FALSE,
               !.awaitingDrawResponse = FALSE]

\* the catch of handleDrawResponse for an error that is not an AbortError
DrawFailedState(gs) ==
    [gs EXCEPT !.isThinking = FALSE,
               !.drawOffer = NoDrawOffer,
               !.awaitingDrawResponse = FALSE]

\* fetch rejects (or, for /draw_response, response.json() rejects)
FetchFail(r) ==
    /\ r \in OpenRequests
    /\ requests[r].phase = "fetching"
    /\ requests' = [requests EXCEPT ![r] = Returned(@, FALSE, FALSE)]
    /\ gameState' = IF requests[r].kind = "move" THEN MoveFailedState(gameState)
                                                 ELSE DrawFailedState(gameState)
    /\ autoTimer' = Render(gameState, gameState', autoTimer)
    /\ lastOp' = Op("fetchFail", r)
    /\ UNCHANGED <<abortControllerRef, thinkingOutputRef, errorTimeoutRef,
                   errorTimers, rejectedFor>>
    /\ UNCHANGED decoder

Reading(r) ==
    /\ r \in OpenRequests
    /\ requests[r].phase = "reading"
    /\ requests[r].events < MaxEvents

\* a thinking_delta event
ThinkingDelta(r) ==
    /\ Reading(r)
    /\ requests[r].deltas < MaxDeltas
    /\ thinkingOutputRef' = Append(thinkingOutputRef, r)
    /\ requests' = [requests EXCEPT ![r].events = @ + 1, ![r].deltas = @ + 1]
    /\ lastOp' = Op("thinkingDelta", r)
    /\ UNCHANGED <<gameState, abortControllerRef, errorTimeoutRef, errorTimers,
                   autoTimer, rejectedFor>>
    /\ UNCHANGED decoder

\* a thinking_end event
ThinkingEnd(r) ==
    /\ Reading(r)
    /\ gameState' = [gameState EXCEPT !.thinkingOutput = thinkingOutputRef]
    /\ requests' = [requests EXCEPT ![r].events = @ + 1]
    /\ autoTimer' = Render(gameState, gameState', autoTimer)
    /\ lastOp' = Op("thinkingEnd", r)
    /\ UNCHANGED <<abortControllerRef, thinkingOutputRef, errorTimeoutRef,
                   errorTimers, rejectedFor>>
    /\ UNCHANGED decoder

\* a line without the data prefix, a [DONE] line, or a payload JSON.parse rejects
SkippedLine(r) ==
    /\ Reading(r)
    /\ requests' = [requests EXCEPT ![r].events = @ + 1]
    /\ lastOp' = Op("skippedLine", r)
    /\ UNCHANGED <<gameState, abortControllerRef, thinkingOutputRef,
                   errorTimeoutRef, errorTimers, autoTimer, rejectedFor>>
    /\ UNCHANGED decoder

\* a result updater without its double-check
StaleResultUnchecked(gs) == FALSE

\* "Double-check we're still in the right state"
\* a double-check that looks at isGameOver only
StaleResultGameOverOnly(gs) == gs.isGameOver

\* a double-check that also drops the result of a paused game
StaleResultWhenPaused(gs) == gs.isGameOver \/ ~gs.isThinking \/ gs.isPaused

StaleResult(gs) == gs.isGameOver \/ ~gs.isThinking

\* a resignation that leaves isStreaming as it is
ResignStateKeepsStreaming(gs, player, data, moveTime) ==
    [gs EXCEPT !.isGameOver = TRUE,
               !.gameResult = ResignResult(player),
               !.isThinking = FALSE,
               !.moveThinkingTokens = Append(@, data.tokens),
               !.moveTimes = Append(@, moveTime)]

ResignState(gs, player, data, moveTime) ==
    [gs EXCEPT !.isGameOver = TRUE,
               !.gameResult = ResignResult(player),
               !.isThinking = FALSE,
               !.isStreaming = FALSE,
               !.moveThinkingTokens = Append(@, data.tokens),
               !.moveTimes = Append(@, moveTime)]

\* a draw offer that records no metrics
DrawOfferStateNoMetrics(gs, player, data, moveTime) ==
    [gs EXCEPT !.drawOffer = [offered |-> TRUE, offeredBy |-> player],
               !.awaitingDrawResponse = TRUE,
               !.isThinking = FALSE,
               !.isStreaming = FALSE]

\* a draw offer that passes the turn to the other color
DrawOfferStateNextPlayer(gs, player, data, moveTime) ==
    [gs EXCEPT !.drawOffer = [offered |-> TRUE, offeredBy |-> player],
               !.awaitingDrawResponse = TRUE,
               !.currentPlayer = Opposite(gs.currentPlayer),
               !.isThinking = FALSE,
               !.isStreaming = FALSE,
               !.moveThinkingTokens = Append(@, data.tokens),
               !.moveTimes = Append(@, moveTime)]

DrawOfferState(gs, player, data, moveTime) ==
    [gs EXCEPT !.drawOffer = [offered |-> TRUE, offeredBy |-> player],
               !.awaitingDrawResponse = TRUE,
               !.isThinking = FALSE,
               !.isStreaming = FALSE,
               !.moveThinkingTokens = Append(@, data.tokens),
               !.moveTimes = Append(@, moveTime)]

\* a gameResult that is set for checkmate only
MoveGameResultCheckmateOnly(player, eng) ==
    IF isGameOver(eng.over) /\ isCheckmate(eng.over)
    THEN CheckmateResult(player)
    ELSE NoResult

\* gameResult after an accepted move
MoveGameResult(player, eng) ==
    IF isGameOver(eng.over)
    THEN IF isCheckmate(eng.over) THEN CheckmateResult(player)
         ELSE IF isDraw(eng.over) THEN RulesDrawResult
         ELSE NoResult
    ELSE NoResult

\* a capture credited to the color that lost the piece
MoveCapturedForOpponent(gs, player, eng) ==
    IF eng.captured
    THEN [gs.capturedPieces EXCEPT ![Opposite(player)] = Append(@, "p")]
    ELSE gs.capturedPieces

MoveCaptured(gs, player, eng) ==
    IF eng.captured
    THEN [gs.capturedPieces EXCEPT ![player] = Append(@, "p")]
    ELSE gs.capturedPieces

\* an accepted move that leaves currentPlayer as it is
MoveAcceptedStateNoFlip(gs, player, data, eng, moveTime) ==
    [gs EXCEPT !.history = Append(@, data.move),
               !.position = eng.over,
               !.isGameOver = isGameOver(eng.over),
               !.gameResult = MoveGameResult(player, eng),
               !.isThinking = FALSE,
               !.isStreaming = FALSE,
               !.capturedPieces = MoveCaptured(gs, player, eng),
               !.moveThinkingTokens = Append(@, data.tokens),
               !.moveTimes = Append(@, moveTime),
               !.lastMove = <<data.move, player, eng.captured>>]

\* the rules engine accepted data.move
MoveAcceptedState(gs, player, data, eng, moveTime) ==
    [gs EXCEPT !.history = Append(@, data.move),
               !.position = eng.over,
               !.currentPlayer = Opposite(gs.currentPlayer),
               !.isGameOver = isGameOver(eng.over),
               !.gameResult = MoveGameResult(player, eng),
               !.isThinking = FALSE,
               !.isStreaming = FALSE,
               !.capturedPieces = MoveCaptured(gs, player, eng),
               !.moveThinkingTokens = Append(@, data.tokens),
               !.moveTimes = Append(@, moveTime),
               !.lastMove = <<data.move, player, eng.captured>>]

\* the rules engine returned no move, or the result has neither move nor action
MoveIgnoredState(gs) == [gs EXCEPT !.isThinking = FALSE, !.isStreaming = FALSE]

\* a rejected move that passes the turn on
MoveThrewStateNextPlayer(gs, player, model) ==
    [gs EXCEPT !.isThinking = FALSE,
               !.isStreaming = FALSE,
               !.currentPlayer = Opposite(gs.currentPlayer),
               !.errorMessage = <<"invalid move", player, model>>]

\* the rules engine threw
MoveThrewState(gs, player, model) ==
    [gs EXCEPT !.isThinking = FALSE,
               !.isStreaming = FALSE,
               !.errorMessage = <<"invalid move", player, model>>]

\* a new error timeout that leaves the one before it pending
ErrorTimersKeepOld(timers, ref, r) == timers \cup {r}

\* clearTimeout(errorTimeoutRef.current), then the timeout of this error
ErrorTimers(timers, ref, r) == (timers \ {ref}) \cup {r}

\* which branch of the result updater runs
ResultBranch(gs, data, eng) ==
    IF StaleResult(gs) THEN "resultDiscarded"
    ELSE IF data.action = "resign" THEN "resign"
    ELSE IF data.action = "draw_offer" THEN "drawOffer"
    ELSE IF data.move = "none" THEN "emptyResult"
    ELSE IF eng.kind = "ok" THEN "moveApplied"
    ELSE IF eng.kind = "null" THEN "moveRejectedNull"
    ELSE "moveRejectedThrow"

\* the updater passed to setGameState for a result event
ResultState(gs, q, data, eng, moveTime) ==
    LET b == ResultBranch(gs, data, eng)
    IN  CASE b = "resultDiscarded"   -> gs
          [] b = "resign"            -> ResignState(gs, q.player, data, moveTime)
          [] b = "drawOffer"         -> DrawOfferState(gs, q.player, data, moveTime)
          [] b = "emptyResult"       -> MoveIgnoredState(gs)
          [] b = "moveApplied"       -> MoveAcceptedState(gs, q.player, data, eng, moveTime)
          [] b = "moveRejectedNull"  -> MoveIgnoredState(gs)
          [] b = "moveRejectedThrow" -> MoveThrewState(gs, q.player, q.model)

\* the rules engine is asked only for a result that carries a move
EngineFor(data) ==
    IF data.move = "none"
    THEN {[kind |-> "null", captured |-> FALSE, over |-> "no"]}
    ELSE EngineAnswers

\* a result event
ResultEvent(r) ==
    /\ Reading(r)
    /\ \E data \in ResultData, moveTime \in Durations :
       \E eng \in EngineFor(data) :
         LET b == ResultBranch(gameState, data, eng)
         IN  /\ gameState' = ResultState(gameState, requests[r], data, eng, moveTime)
             /\ requests' = [requests EXCEPT ![r].events = @ + 1,
                                             ![r].interval = FALSE,
                                             ![r].resultSeen = TRUE]
             /\ IF b = "moveRejectedThrow"
                THEN /\ errorTimers' = ErrorTimers(errorTimers, errorTimeoutRef, r)
                     /\ errorTimeoutRef' = r
                ELSE UNCHANGED <<errorTimers, errorTimeoutRef>>
             /\ rejectedFor' = IF b \in {"moveRejectedThrow", "moveRejectedNull"}
                               THEN requests[r].player
                               ELSE rejectedFor
             /\ lastOp' = Op(b, r)
    /\ autoTimer' = Render(gameState, gameState', autoTimer)
    /\ UNCHANGED <<abortControllerRef, thinkingOutputRef>>
    /\ UNCHANGED decoder

\* reader.read() reports done: the loop breaks and makeMove returns
StreamEnd(r) ==
    /\ r \in OpenRequests
    /\ requests[r].phase = "reading"
    /\ requests' = [requests EXCEPT ![r] = Returned(@, FALSE, @.interval)]
    /\ lastOp' = Op(IF requests[r].resultSeen THEN "streamEnd" ELSE "streamEndNoResult", r)
    /\ UNCHANGED <<gameState, abortControllerRef, thinkingOutputRef,
                   errorTimeoutRef, errorTimers, autoTimer, rejectedFor>>
    /\ UNCHANGED decoder

\* reader.read() rejects: the catch around the loop only logs
StreamError(r) ==
    /\ r \in OpenRequests
    /\ requests[r].phase = "reading"
    /\ requests' = [requests EXCEPT ![r] = Returned(@, FALSE, @.interval)]
    /\ lastOp' = Op(IF requests[r].resultSeen THEN "streamError" ELSE "streamErrorNoResult", r)
    /\ UNCHANGED <<gameState, abortControllerRef, thinkingOutputRef,
                   errorTimeoutRef, errorTimers, autoTimer, rejectedFor>>
    /\ UNCHANGED decoder

\* the 50 ms interval of a request copies the ref into thinkingOutput
IntervalTick(r) ==
    /\ r \in DOMAIN requests
    /\ requests[r].interval
    /\ gameState' = [gameState EXCEPT !.thinkingOutput = thinkingOutputRef]
    /\ autoTimer' = Render(gameState, gameState', autoTimer)
    /\ lastOp' = Op("intervalTick", r)
    /\ UNCHANGED <<abortControllerRef, thinkingOutputRef, errorTimeoutRef,
                   errorTimers, requests, rejectedFor>>
    /\ UNCHANGED decoder

----------------------------------------------------------------------------
(* handleDrawResponse: the answer of /draw_response *)

\* "Double-check we're still in the right state"
StaleDrawResponse(gs) ==
    gs.isGameOver \/ ~gs.isThinking \/ ~gs.awaitingDrawResponse

\* an accepted draw that leaves the offer pending
DrawAcceptStateKeepsOffer(gs, data, moveTime) ==
    [gs EXCEPT !.isGameOver = TRUE,
               !.gameResult = AgreedDrawResult,
               !.isThinking = FALSE,
               !.moveThinkingTokens = Append(@, data.tokens),
               !.moveTimes = Append(@, moveTime)]

DrawAcceptState(gs, data, moveTime) ==
    [gs EXCEPT !.isGameOver = TRUE,
               !.gameResult = AgreedDrawResult,
               !.isThinking = FALSE,
               !.drawOffer = NoDrawOffer,
               !.awaitingDrawResponse = FALSE,
               !.moveThinkingTokens = Append(@, data.tokens),
               !.moveTimes = Append(@, moveTime)]

\* a decline that passes the turn to the color that did not offer
DrawDeclineStateNextPlayer(gs, data, moveTime) ==
    [gs EXCEPT !.isThinking = FALSE,
               !.currentPlayer = Opposite(gs.currentPlayer),
               !.drawOffer = NoDrawOffer,
               !.awaitingDrawResponse = FALSE,
               !.moveThinkingTokens = Append(@, data.tokens),
               !.moveTimes = Append(@, moveTime)]

DrawDeclineState(gs, data, moveTime) ==
    [gs EXCEPT !.isThinking = FALSE,
               !.drawOffer = NoDrawOffer,
               !.awaitingDrawResponse = FALSE,
               !.moveThinkingTokens = Append(@, data.tokens),
               !.moveTimes = Append(@, moveTime)]

DrawBranch(gs, data) ==
    IF StaleDrawResponse(gs) THEN "drawDiscarded"
    ELSE IF data.action = "draw_accept" THEN "drawAccept"
    ELSE "drawDecline"

\* the updater passed to setGameState for the answer
DrawResponseResult(gs, data, moveTime) ==
    LET b == DrawBranch(gs, data)
    IN  CASE b = "drawDiscarded" -> gs
          [] b = "drawAccept"    -> DrawAcceptState(gs, data, moveTime)
          [] b = "drawDecline"   -> DrawDeclineState(gs, data, moveTime)

\* fetch resolves with response.ok and response.json() yields the answer
DrawAnswer(r) ==
    /\ r \in OpenRequests
    /\ requests[r].kind = "draw"
    /\ requests[r].phase = "fetching"
    /\ \E data \in DrawData, moveTime \in Durations :
         /\ gameState' = DrawResponseResult(gameState, data, moveTime)
         /\ lastOp' = Op(DrawBranch(gameState, data), r)
    /\ requests' = [requests EXCEPT ![r] = Returned(@, FALSE, FALSE)]
    /\ autoTimer' = Render(gameState, gameState', autoTimer)
    /\ UNCHANGED <<abortControllerRef, thinkingOutputRef, errorTimeoutRef,
                   errorTimers, rejectedFor>>
    /\ UNCHANGED decoder

----------------------------------------------------------------------------
(* Timers and user intents *)

\* the 3 s timeout set when the rules engine threw
ErrorTimerFire(t) ==
    /\ t \in errorTimers
    /\ errorTimers' = errorTimers \ {t}
    /\ gameState' = [gameState EXCEPT !.errorMessage = << >>]
    /\ autoTimer' = Render(gameState, gameState', autoTimer)
    /\ lastOp' = Op("errorTimerFire", t)
    /\ UNCHANGED <<abortControllerRef, thinkingOutputRef, errorTimeoutRef,
                   requests, rejectedFor>>
    /\ UNCHANGED decoder

\* the model selectors, enabled until the game is started
SelectModel(color, model) ==
    /\ ~gameState.isGameStarted
    /\ gameState' = IF color = "white"
                    THEN [gameState EXCEPT !.whiteModel = model]
                    ELSE [gameState EXCEPT !.blackModel = model]
    /\ autoTimer' = Render(gameState, gameState', autoTimer)
    /\ lastOp' = Op("selectModel", 0)
    /\ UNCHANGED <<abortControllerRef, thinkingOutputRef, errorTimeoutRef,
                   errorTimers, requests, rejectedFor>>
    /\ UNCHANGED decoder

\* "Pick Random Models", shown until the game is started: two different models
pickRandomModels ==
    /\ ~gameState.isGameStarted
    /\ \E shuffledModels \in Shuffles :
         gameState' = [gameState EXCEPT !.whiteModel = shuffledModels[1],
                                        !.blackModel = shuffledModels[2]]
    /\ autoTimer' = Render(gameState, gameState', autoTimer)
    /\ lastOp' = Op("pickRandomModels", 0)
    /\ UNCHANGED <<abortControllerRef, thinkingOutputRef, errorTimeoutRef,
                   errorTimers, requests, rejectedFor>>
    /\ UNCHANGED decoder

StartedState(gs) ==
    [gs EXCEPT !.isGameStarted = TRUE,
               !.history = << >>,
               !.position = "no",
               !.moveThinkingTokens = << >>,
               !.moveTimes = << >>,
               !.drawOffer = NoDrawOffer,
               !.awaitingDrawResponse = FALSE,
               !.thinkingOutput = << >>,
               !.isStreaming = FALSE,
               !.errorMessage = << >>]

\* a validation that looks at white's model only
StartRefusedWhiteOnly(gs) == gs.whiteModel = ""

\* "Please select models for both white and black."
StartRefused(gs) == gs.whiteModel = "" \/ gs.blackModel = ""

\* "Start Game", shown until the game is started
startGame ==
    /\ ~gameState.isGameStarted
    /\ IF StartRefused(gameState)
       THEN /\ UNCHANGED <<gameState, autoTimer>>
            /\ lastOp' = Op("startRefused", 0)
       ELSE /\ gameState' = StartedState(gameState)
            /\ autoTimer' = Render(gameState, gameState', autoTimer)
            /\ lastOp' = Op("startGame", 0)
    /\ UNCHANGED <<abortControllerRef, thinkingOutputRef, errorTimeoutRef,
                   errorTimers, requests, rejectedFor>>
    /\ UNCHANGED decoder

\* a reset that leaves the turn where it was
ResetStateKeepsPlayer(gs) ==
    [InitialGameState EXCEPT !.whiteModel = gs.whiteModel,
                             !.blackModel = gs.blackModel,
                             !.currentPlayer = gs.currentPlayer]

\* a reset that clears the models too
ResetStateDropsModels(gs) == InitialGameState

\* the state resetGame passes to setGameState
ResetState(gs) ==
    [InitialGameState EXCEPT !.whiteModel = gs.whiteModel,
                             !.blackModel = gs.blackModel]

\* "Reset Game", shown once the game is started
resetGame ==
    /\ gameState.isGameStarted
    /\ requests' = Abort(requests, abortControllerRef)
    /\ abortControllerRef' = 0
    /\ errorTimers' = errorTimers \ {errorTimeoutRef}
    /\ errorTimeoutRef' = 0
    /\ gameState' = ResetState(gameState)
    /\ autoTimer' = Render(gameState, gameState', autoTimer)
    /\ lastOp' = StepOp("resetGame", 0, Cancels, "none")
    /\ rejectedFor' = "none"
    /\ UNCHANGED thinkingOutputRef
    /\ UNCHANGED decoder

\* "Pause" / "Resume", shown once the game is started, disabled when it is over
togglePause ==
    /\ gameState.isGameStarted
    /\ ~gameState.isGameOver
    /\ gameState' = [gameState EXCEPT !.isPaused = ~gameState.isPaused]
    /\ autoTimer' = Render(gameState, gameState', autoTimer)
    /\ lastOp' = Op("togglePause", 0)
    /\ UNCHANGED <<abortControllerRef, thinkingOutputRef, errorTimeoutRef,
                   errorTimers, requests, rejectedFor>>
    /\ UNCHANGED decoder

----------------------------------------------------------------------------
(* The read loop of makeMove, chunk by chunk *)

\* the read loop is not looked into: the events of a stream arrive as the
\* steps ThinkingDelta, ThinkingEnd, SkippedLine and ResultEvent
NoDecoder ==
    [stream |-> << >>, pos |-> 0, buffer |-> << >>, lines |-> << >>,
     split |-> FALSE, done |-> FALSE]

\* text is a sequence of characters
NL == "\n"

\* 'data: '
DataPrefix == <<"d", "a", "t", "a", ":", " ">>

\* '[DONE]'
DoneMarker == <<"[", "D", "O", "N", "E", "]">>

\* what String.prototype.trim removes at both ends
WhiteSpace == {" ", "\t", "\r", "\n"}

\* payloads of event lines, each a JSON text written as one character: a
\* result event that carries the move e4, a thinking_delta event, a
\* thinking_end event, and a text that is not JSON
ResultPayload == <<"R">>
DeltaPayload == <<"T">>
EndPayload == <<"E">>
BadPayload == <<"X">>

\* lines a stream is made of: the events, a [DONE] line, a payload that is
\* not JSON, a comment line, and a result line of a stream with CRLF line ends
ResultLine == DataPrefix \o ResultPayload
ResultLineCR == DataPrefix \o ResultPayload \o <<"\r">>
DeltaLine == DataPrefix \o DeltaPayload
DoneLine == DataPrefix \o DoneMarker
BadLine == DataPrefix \o BadPayload
CommentLine == <<":", " ", "k">>

StreamLines ==
    {ResultLine, ResultLineCR, DeltaLine, DoneLine, BadLine, CommentLine}

\* complete lines of a stream
MaxLines == 2

RECURSIVE Join(_)
\* the lines, each followed by a newline
Join(ls) == IF ls = << >> THEN << >> ELSE Head(ls) \o <<NL>> \o Join(Tail(ls))

\* the stream texts tried: complete lines, then nothing or a result line that
\* no newline follows
Streams ==
    { Join(ls) \o tail :
        ls \in UNION {[1 .. n -> StreamLines] : n \in 0 .. MaxLines},
        tail \in {<< >>, ResultLine} }

RECURSIVE split(_, _)
\* String.prototype.split for a separator of one character
split(s, sep) ==
    IF \A i \in 1 .. Len(s) : s[i] # sep
    THEN <<s>>
    ELSE LET i == CHOOSE k \in 1 .. Len(s) :
                    s[k] = sep /\ \A j \in 1 .. k - 1 : s[j] # sep
         IN  <<SubSeq(s, 1, i - 1)>> \o split(SubSeq(s, i + 1, Len(s)), sep)

RECURSIVE trim(_)
trim(s) ==
    IF s # << >> /\ Head(s) \in WhiteSpace THEN trim(Tail(s))
    ELSE IF s # << >> /\ s[Len(s)] \in WhiteSpace
         THEN trim(SubSeq(s, 1, Len(s) - 1))
         ELSE s

startsWith(s, prefix) ==
    Len(s) >= Len(prefix) /\ SubSeq(s, 1, Len(prefix)) = prefix

\* s.substring(n)
substring(s, n) == SubSeq(s, n + 1, Len(s))

\* JSON.parse(dataStr).type, "SyntaxError" when JSON.parse throws
JSONparse(dataStr) ==
    IF dataStr = ResultPayload THEN "result"
    ELSE IF dataStr = DeltaPayload THEN "thinking_delta"
    ELSE IF dataStr = EndPayload THEN "thinking_end"
    ELSE "SyntaxError"

\* what the body of the for loop makes of lines[i]: the type of the event it
\* handles, "none" for a line it passes over or whose payload it cannot parse
LineEvent(rawLine) ==
    LET line == trim(rawLine)
    IN  IF ~startsWith(line, DataPrefix) THEN "none"
        ELSE LET dataStr == substring(line, 6)
             IN  IF dataStr = DoneMarker THEN "none"
                 ELSE IF JSONparse(dataStr) = "SyntaxError" THEN "none"
                 ELSE JSONparse(dataStr)

\* event.data of the result payload, and the answer of the rules engine to
\* e4 in the initial position
StreamResultData == [action |-> "none", move |-> "e4", tokens |-> 7]

StreamEngine == [kind |-> "ok", captured |-> FALSE, over |-> "no"]

\* the handlers of the three event types, on gameState (gs), the ref and the
\* request (q)
StreamEvent(st, rawLine) ==
    LET type == LineEvent(rawLine)
    IN  CASE type = "thinking_delta" -> [st EXCEPT !.ref = Append(@, 1)]
          [] type = "thinking_end"   -> [st EXCEPT !.gs.thinkingOutput = st.ref]
          [] type = "result"         ->
               [st EXCEPT !.gs = ResultState(st.gs, st.q, StreamResultData,
                                             StreamEngine, 1),
                          !.q.interval = FALSE,
                          !.q.resultSeen = TRUE]
          [] OTHER                   -> st

RECURSIVE StreamEventsStopAtError(_, _)
\* a for loop that a payload JSON.parse rejects brings to its end
StreamEventsStopAtError(st, lines) ==
    IF lines = << >> \/ trim(Head(lines)) = BadLine THEN st
    ELSE StreamEventsStopAtError(StreamEvent(st, Head(lines)), Tail(lines))

RECURSIVE StreamEvents(_, _)
\* the for loop over the complete lines
StreamEvents(st, lines) ==
    IF lines = << >> THEN st
    ELSE StreamEvents(StreamEvent(st, Head(lines)), Tail(lines))

\* a buffer that does not keep the last, incomplete piece
NextBufferDropped(lines) == << >>

\* buffer = lines[lines.length - 1]
NextBuffer(lines) == lines[Len(lines)]

\* reader.read() yields the next n characters of the stream
ReadChunk ==
    /\ requests # << >> /\ requests[1].phase = "reading"
    /\ \E n \in 1 .. Len(decoder.stream) - decoder.pos :
         LET value == SubSeq(decoder.stream, decoder.pos + 1, decoder.pos + n)
             lines == split(decoder.buffer \o value, NL)
             complete == SubSeq(lines, 1, Len(lines) - 1)
             st == StreamEvents([gs |-> gameState, ref |-> thinkingOutputRef,
                                 q |-> requests[1]], complete)
         IN  /\ decoder' = [decoder EXCEPT
                              !.pos = @ + n,
                              !.buffer = NextBuffer(lines),
                              !.lines = @ \o complete,
                              !.split = @ \/ (decoder.buffer # << >>)]
             /\ gameState' = st.gs
             /\ thinkingOutputRef' = st.ref
             /\ requests' = <<st.q>>
    /\ autoTimer' = Render(gameState, gameState', autoTimer)
    /\ lastOp' = Op("readChunk", 1)
    /\ UNCHANGED <<abortControllerRef, errorTimeoutRef, errorTimers, rejectedFor>>

\* an end of stream that handles what is left in buffer as a last line
ReadDoneFlush ==
    /\ requests # << >> /\ requests[1].phase = "reading"
    /\ decoder.pos = Len(decoder.stream)
    /\ LET st == StreamEvents([gs |-> gameState, ref |-> thinkingOutputRef,
                               q |-> requests[1]], <<decoder.buffer>>)
       IN  /\ gameState' = st.gs
           /\ thinkingOutputRef' = st.ref
           /\ requests' = <<Returned(st.q, FALSE, st.q.interval)>>
    /\ decoder' = [decoder EXCEPT !.done = TRUE]
    /\ autoTimer' = Render(gameState, gameState', autoTimer)
    /\ lastOp' = Op("streamEnd", 1)
    /\ UNCHANGED <<abortControllerRef, errorTimeoutRef, errorTimers, rejectedFor>>

\* reader.read() reports done: the loop breaks, buffer goes with makeMove
ReadDone ==
    /\ requests # << >> /\ requests[1].phase = "reading"
    /\ decoder.pos = Len(decoder.stream)
    /\ decoder' = [decoder EXCEPT !.done = TRUE]
    /\ requests' = <<Returned(requests[1], FALSE, requests[1].interval)>>
    /\ lastOp' = Op(IF requests[1].resultSeen THEN "streamEnd"
                                               ELSE "streamEndNoResult", 1)
    /\ UNCHANGED <<gameState, abortControllerRef, thinkingOutputRef,
                   errorTimeoutRef, errorTimers, autoTimer, rejectedFor>>

----------------------------------------------------------------------------
(* The specification *)

Init ==
    /\ gameState = InitialGameState
    /\ abortControllerRef = 0
    /\ thinkingOutputRef = << >>
    /\ errorTimeoutRef = 0
    /\ errorTimers = {}
    /\ requests = << >>
    /\ autoTimer = NoTimer
    /\ lastOp = Op("init", 0)
    /\ rejectedFor = "none"
    /\ decoder = NoDecoder

Requests == 1 .. MaxReq

Next ==
    \/ makeMove
    \/ handleDrawResponse
    \/ \E r \in Requests : FetchOk(r)
    \/ \E r \in Requests : FetchNotOk(r)
    \/ \E r \in Requests : FetchFail(r)
    \/ \E r \in Requests : ThinkingDelta(r)
    \/ \E r \in Requests : ThinkingEnd(r)
    \/ \E r \in Requests : SkippedLine(r)
    \/ \E r \in Requests : ResultEvent(r)
    \/ \E r \in Requests : StreamEnd(r)
    \/ \E r \in Requests : StreamError(r)
    \/ \E r \in Requests : IntervalTick(r)
    \/ \E r \in Requests : DrawAnswer(r)
    \/ \E t \in Requests : ErrorTimerFire(t)
    \/ \E sel \in Selections : SelectModel(sel[1], sel[2])
    \/ pickRandomModels
    \/ startGame
    \/ resetGame
    \/ togglePause

Spec == Init /\ [][Next]_vars

\* the 1000 ms timeout of the auto-play effect fires unless it is cleared
FairSpec ==
    /\ Init /\ [][Next]_vars
    /\ WF_vars(makeMove)
    /\ WF_vars(handleDrawResponse)

\* white's first move request of a game, when its response headers arrived
StreamStart ==
    LET models == CHOOSE shuffledModels \in Shuffles : TRUE
        picked == [InitialGameState EXCEPT !.whiteModel = models[1],
                                           !.blackModel = models[2]]
        started == StartedState(picked)
        timer == EffectTimer(started)
    IN  [ gs  |-> MakeMoveState(started, timer),
          ref |-> << >>,
          q   |-> [NewRequest("move", timer.model, timer.player, timer.history,
                              supportsStreaming(timer.model))
                     EXCEPT !.phase = "reading"] ]

\* the state after pickRandomModels, startGame, makeMove and FetchOk, and a
\* stream text to be read
StreamInit ==
    /\ gameState = StreamStart.gs
    /\ abortControllerRef = 1
    /\ thinkingOutputRef = StreamStart.ref
    /\ errorTimeoutRef = 0
    /\ errorTimers = {}
    /\ requests = <<StreamStart.q>>
    /\ autoTimer = NoTimer
    /\ lastOp = Op("fetchOk", 1)
    /\ rejectedFor = "none"
    /\ \E stream \in Streams :
         decoder = [NoDecoder EXCEPT !.stream = stream]

StreamNext == ReadChunk \/ ReadDone

\* the read loop of one request, for every text and every way to cut it
StreamSpec == StreamInit /\ [][StreamNext]_vars

----------------------------------------------------------------------------
(* Properties *)

RejectedSteps == {"moveRejectedNull", "moveRejectedThrow"}

\* a turn completed: a move, a resignation, a draw offer or an answer to one
CompletedTurnSteps ==
    {"moveApplied", "resign", "drawOffer", "drawAccept", "drawDecline"}

StartSteps == {"makeMove", "handleDrawResponse"}

\* C1: at most one request that was not aborted is outstanding at any time,
\* and it is the one whose controller the ref holds; a step that starts a
\* request leaves it the only one, and no call is pending while isThinking
\* is true.
C1_AtMostOneOutstanding ==
    /\ Cardinality({r \in OpenRequests : ~requests[r].aborted}) <= 1
    /\ \A r \in OpenRequests : r = abortControllerRef
    /\ lastOp.op \in StartSteps =>
         /\ OpenRequests = {lastOp.req}
         /\ gameState.isThinking
    /\ autoTimer.kind # "none" => ~gameState.isThinking

\* a request was started while the stream of the previous one was still open,
\* and cancelled it
C1_Witness ==
    /\ lastOp.op = "makeMove"
    /\ lastOp.aborts # 0
    /\ lastOp.aborts # lastOp.req
    /\ OpenRequests = {lastOp.req}

\* the request r is stale: the game is over, or r does not own the current
\* cancellation handle (reset, or a newer request)
Stale(r) == gameState.isGameOver \/ abortControllerRef # r

\* C2: a move result or a draw answer that arrives for a stale request changes
\* no field of gameState and sets no timer.
C2_StaleResponseDiscarded ==
    [][\A r \in Requests :
         (Stale(r) /\ (ResultEvent(r) \/ DrawAnswer(r)))
           => /\ gameState' = gameState
              /\ errorTimers' = errorTimers
              /\ autoTimer' = autoTimer]_vars

\* a second result of a stream arrived after the first one had ended the game
C2_Witness ==
    /\ lastOp.op = "resultDiscarded"
    /\ gameState.isGameOver
    /\ requests[lastOp.req].events = 2

\* C3 (as claimed): the interval of a cancelled request is stopped, and after
\* resetGame thinkingOutput stays empty until the next request starts.
C3_CancelledRequestSilent ==
    /\ \A r \in DOMAIN requests : requests[r].aborted => ~requests[r].interval
    /\ ~gameState.isGameStarted => gameState.thinkingOutput = << >>

\* C4 (as claimed): while a draw offer is pending no move request is due, and
\* the draw-response request is addressed to the color that did not offer,
\* with that color's model.
C4_DrawResponseToOpponent ==
    /\ gameState.awaitingDrawResponse => autoTimer.kind # "move"
    /\ \A r \in OpenRequests :
         requests[r].kind = "draw" =>
           /\ requests[r].player = Opposite(gameState.drawOffer.offeredBy)
           /\ requests[r].model =
                (IF requests[r].player = "white" THEN gameState.whiteModel
                                                 ELSE gameState.blackModel)

\* steps in which a request ended without a result being applied
FailedSteps ==
    {"fetchFail", "fetchNotOk", "streamEndNoResult", "streamErrorNoResult"}

\* C5: an applied move result changes currentPlayer to the opposite color;
\* a resignation, a draw offer, a draw accept, a draw decline, a rejected move
\* and a failed request leave it unchanged.
C5_TurnFlip ==
    [][/\ lastOp'.op = "moveApplied"
            => gameState'.currentPlayer = Opposite(gameState.currentPlayer)
       /\ lastOp'.op \in ((CompletedTurnSteps \ {"moveApplied"})
                           \cup RejectedSteps \cup FailedSteps)
            => gameState'.currentPlayer = gameState.currentPlayer]_vars

\* black's move was applied and it is white's turn again
C5_Witness ==
    /\ lastOp.op = "moveApplied"
    /\ Len(gameState.history) = 2
    /\ gameState.currentPlayer = "white"

\* C6: a move the rules engine rejects (it throws, or returns no move) leaves
\* the history, currentPlayer, capturedPieces and both metric sequences as
\* they were and clears isThinking; the next request issued is a move request
\* for the same color.
C6_RejectedMoveRetried ==
    [][/\ lastOp'.op \in RejectedSteps =>
            /\ gameState'.history = gameState.history
            /\ gameState'.currentPlayer = gameState.currentPlayer
            /\ gameState'.capturedPieces = gameState.capturedPieces
            /\ gameState'.moveThinkingTokens = gameState.moveThinkingTokens
            /\ gameState'.moveTimes = gameState.moveTimes
            /\ ~gameState'.isThinking
            /\ rejectedFor' = requests[lastOp'.req].player
       /\ (rejectedFor # "none" /\ Len(requests') > Len(requests)) =>
            /\ requests'[Len(requests')].kind = "move"
            /\ requests'[Len(requests')].player = rejectedFor
            /\ requests'[Len(requests')].history = gameState.history]_vars

\* a move request was issued again for the color whose move was rejected
C6_Witness ==
    /\ lastOp.op = "makeMove"
    /\ lastOp.retry = "black"
    /\ requests[lastOp.req].player = "black"

\* C7: both metric sequences get exactly one entry with every completed turn
\* (applied move, resignation, draw offer, draw accept, draw decline) and none
\* with a rejected move, a failed request or a cancelled one.
C7_MetricsAlignment ==
    [][/\ lastOp'.op \in CompletedTurnSteps =>
            /\ Len(gameState'.moveThinkingTokens)
                 = Len(gameState.moveThinkingTokens) + 1
            /\ Len(gameState'.moveTimes) = Len(gameState.moveTimes) + 1
       /\ (lastOp'.op \in (RejectedSteps \cup FailedSteps
                             \cup {"resultDiscarded", "drawDiscarded"})
           \/ (lastOp'.op \in StartSteps /\ lastOp'.aborts # 0)) =>
            /\ gameState'.moveThinkingTokens = gameState.moveThinkingTokens
            /\ gameState'.moveTimes = gameState.moveTimes
       /\ Len(gameState'.moveThinkingTokens) = Len(gameState'.moveTimes)]_vars

\* a draw offer and its decline are the two turns completed so far
C7_Witness ==
    /\ lastOp.op = "drawDecline"
    /\ Len(gameState.history) = 0
    /\ Len(gameState.moveTimes) = 2
    /\ Len(gameState.moveThinkingTokens) = 2

\* C8: once isGameOver is true no request is issued and currentPlayer, the
\* history, capturedPieces and gameResult do not change until resetGame.
C8_FinishedIsFrozen ==
    [][(gameState.isGameOver /\ lastOp'.op # "resetGame") =>
          /\ Len(requests') = Len(requests)
          /\ gameState'.isGameOver
          /\ gameState'.currentPlayer = gameState.currentPlayer
          /\ gameState'.history = gameState.history
          /\ gameState'.capturedPieces = gameState.capturedPieces
          /\ gameState'.gameResult = gameState.gameResult]_vars

\* a result arrived on the open stream of a finished game
C8_Witness ==
    /\ gameState.isGameOver
    /\ lastOp.op = "resultDiscarded"
    /\ gameState.gameResult # NoResult

\* C9 (as claimed): when the stream ends before any result event, isThinking
\* and isStreaming are cleared and the interval is stopped.
C9_EndOfStreamIsFailure ==
    lastOp.op = "streamEndNoResult" =>
      /\ ~gameState.isThinking
      /\ ~gameState.isStreaming
      /\ ~requests[lastOp.req].interval

\* C10 (as claimed): a transport failure of a move request or of a
\* draw-response request clears isThinking and isStreaming and changes no
\* other field of gameState.
C10_FailureOnlyClearsFlags ==
    [][lastOp'.op \in {"fetchFail", "streamErrorNoResult"} =>
         gameState' = [gameState EXCEPT !.isThinking = FALSE,
                                        !.isStreaming = FALSE]]_vars

\* C11 (as claimed): the game is never left with isThinking true and no
\* request outstanding, whichever way a request ended.
C11_NeverStuck ==
    gameState.isThinking => OpenRequests # {}

\* C12 (as claimed): when the draw offer of white is declined the game is in
\* progress, drawOffer is cleared, and the move request that is scheduled
\* next is for black.
C12_DeclineThenBlackMoves ==
    [][(lastOp'.op = "drawDecline" /\ gameState.drawOffer.offeredBy = "white") =>
          /\ gameState'.isGameStarted /\ ~gameState'.isGameOver
          /\ ~gameState'.awaitingDrawResponse
          /\ gameState'.drawOffer = NoDrawOffer
          /\ autoTimer'.kind # "none" =>
                autoTimer'.kind = "move" /\ autoTimer'.player = "black"]_vars

\* C12 (amended): when a draw offer is declined the game is in progress,
\* drawOffer is cleared and the turn stays with the color that made the
\* offer: the move request scheduled next is for that color, and every move
\* request is issued for the color whose turn it is.
C12_DeclineKeepsTurn ==
    [][/\ lastOp'.op = "drawDecline" =>
            /\ gameState'.isGameStarted /\ ~gameState'.isGameOver
            /\ ~gameState'.awaitingDrawResponse
            /\ gameState'.drawOffer = NoDrawOffer
            /\ gameState'.currentPlayer = gameState.drawOffer.offeredBy
            /\ autoTimer'.kind # "none" =>
                  /\ autoTimer'.kind = "move"
                  /\ autoTimer'.player = gameState.drawOffer.offeredBy
       /\ lastOp'.op = "makeMove" =>
            /\ requests'[lastOp'.req].kind = "move"
            /\ requests'[lastOp'.req].player = autoTimer.player
            /\ requests'[lastOp'.req].player = gameState.currentPlayer]_vars

\* white offered a draw before any move, the offer was declined, and the move
\* request that followed is for white
C12_Witness ==
    /\ lastOp.op = "makeMove"
    /\ gameState.history = << >>
    /\ Len(gameState.moveTimes) = 2
    /\ gameState.drawOffer = NoDrawOffer
    /\ requests[lastOp.req].kind = "move"
    /\ requests[lastOp.req].player = "white"

\* the winner a gameResult names, "none" for a draw and for no result
Winner(result) ==
    CASE result \in {"Black resigned. White wins!", "White wins by checkmate!"}
           -> "white"
      [] result \in {"White resigned. Black wins!", "Black wins by checkmate!"}
           -> "black"
      [] OTHER -> "none"

\* one entry was appended to each metric sequence
MetricsAppended ==
    /\ Len(gameState'.moveThinkingTokens) = Len(gameState.moveThinkingTokens) + 1
    /\ Len(gameState'.moveTimes) = Len(gameState.moveTimes) + 1
    /\ SubSeq(gameState'.moveThinkingTokens, 1, Len(gameState.moveThinkingTokens))
         = gameState.moveThinkingTokens
    /\ SubSeq(gameState'.moveTimes, 1, Len(gameState.moveTimes))
         = gameState.moveTimes

\* C13: when a draw-response request returns draw_accept while a draw offer
\* is pending, the game is finished with the draw-by-agreement result,
\* drawOffer and awaitingDrawResponse are cleared, and one entry is appended
\* to each metric sequence.
C13_DrawAccepted ==
    [][lastOp'.op = "drawAccept" =>
         /\ gameState.awaitingDrawResponse /\ gameState.drawOffer.offered
         /\ gameState'.isGameOver
         /\ gameState'.gameResult = "Game ends in a draw by agreement!"
         /\ Winner(gameState'.gameResult) = "none"
         /\ gameState'.drawOffer = NoDrawOffer
         /\ ~gameState'.awaitingDrawResponse
         /\ MetricsAppended]_vars

\* the offer of white was accepted
C13_Witness ==
    /\ lastOp.op = "drawAccept"
    /\ gameState.isGameOver
    /\ gameState.gameResult = AgreedDrawResult
    /\ Len(gameState.moveTimes) = 2

\* C14: when a move request for color c returns resign, the game is
\* finished, the winner is the color opposite to c, the position and the
\* history are unchanged, and one entry is appended to each metric sequence.
C14_Resigned ==
    [][lastOp'.op = "resign" =>
         /\ gameState'.isGameOver
         /\ gameState'.gameResult # NoResult
         /\ Winner(gameState'.gameResult)
              = Opposite(requests[lastOp'.req].player)
         /\ gameState'.history = gameState.history
         /\ gameState'.position = gameState.position
         /\ MetricsAppended]_vars

\* black resigned after white's first move
C14_Witness ==
    /\ lastOp.op = "resign"
    /\ gameState.isGameOver
    /\ gameState.gameResult = "Black resigned. White wins!"
    /\ Len(gameState.history) = 1

\* the captures of color c grew by n pieces and kept what they held
CapturesGrew(c, n) ==
    /\ Len(gameState'.capturedPieces[c]) = Len(gameState.capturedPieces[c]) + n
    /\ SubSeq(gameState'.capturedPieces[c], 1, Len(gameState.capturedPieces[c]))
         = gameState.capturedPieces[c]

\* C15: an accepted move grows history by exactly one entry, appends exactly
\* one piece to capturedPieces of the moving color iff the move captured, and
\* leaves capturedPieces of the other color; history and capturedPieces never
\* shrink during a game.
C15_HistoryAndCaptures ==
    [][/\ lastOp'.op = "moveApplied" =>
            LET c == requests[lastOp'.req].player
            IN  /\ Len(gameState'.history) = Len(gameState.history) + 1
                /\ SubSeq(gameState'.history, 1, Len(gameState.history))
                     = gameState.history
                /\ CapturesGrew(c, IF gameState'.lastMove[3] THEN 1 ELSE 0)
                /\ gameState'.capturedPieces[Opposite(c)]
                     = gameState.capturedPieces[Opposite(c)]
       /\ lastOp'.op # "resetGame" =>
            /\ Len(gameState'.history) >= Len(gameState.history)
            /\ \A c \in Colors :
                  Len(gameState'.capturedPieces[c])
                    >= Len(gameState.capturedPieces[c])]_vars

\* black captured on its move, white did not on its move before
C15_Witness ==
    /\ lastOp.op = "moveApplied"
    /\ Len(gameState.history) = 2
    /\ gameState.lastMove[3]
    /\ gameState.capturedPieces = [white |-> << >>, black |-> <<"p">>]

\* C16: an accepted move by color c that leaves the rules engine in checkmate
\* finishes the game with c as the winner; one that leaves it in a
\* rules-defined draw finishes the game with a draw result and no winner.
C16_MateAndDraw ==
    lastOp.op = "moveApplied" =>
      /\ isCheckmate(gameState.position) =>
            /\ gameState.isGameOver
            /\ gameState.gameResult # NoResult
            /\ Winner(gameState.gameResult) = gameState.lastMove[2]
      /\ isDraw(gameState.position) =>
            /\ gameState.isGameOver
            /\ gameState.gameResult = "Game ends in a draw!"
            /\ Winner(gameState.gameResult) = "none"

\* black mated white on its first move
C16_Witness ==
    /\ lastOp.op = "moveApplied"
    /\ isCheckmate(gameState.position)
    /\ gameState.lastMove[2] = "black"
    /\ gameState.gameResult = "Black wins by checkmate!"

\* C17: isGameOver implies that gameResult is set, whichever way the rules
\* engine reports the end of the game; gameResult is set once, when the game
\* becomes over, and is not changed until the reset.
C17_ResultSetOnce ==
    /\ [](gameState.isGameOver => gameState.gameResult # NoResult)
    /\ [][lastOp'.op # "resetGame" =>
            /\ gameState.gameResult # NoResult =>
                  gameState'.gameResult = gameState.gameResult
            /\ gameState'.gameResult # gameState.gameResult =>
                  ~gameState.isGameOver /\ gameState'.isGameOver]_vars

\* the game ended in stalemate, and the result of it is set
C17_Witness ==
    /\ gameState.isGameOver
    /\ gameState.position = "stalemate"
    /\ gameState.gameResult = RulesDrawResult

\* C18: startGame invoked while whiteModel or blackModel is empty reports the
\* validation error and changes nothing: the game stays not started, and
\* while it is not started no request is open and none is scheduled.
C18_StartRefused ==
    [][/\ (lastOp'.op \in {"startGame", "startRefused"}
           /\ (gameState.whiteModel = "" \/ gameState.blackModel = "")) =>
            /\ lastOp'.op = "startRefused"
            /\ gameState' = gameState
            /\ ~gameState'.isGameStarted
            /\ requests' = requests
            /\ autoTimer' = autoTimer
            /\ abortControllerRef' = abortControllerRef
       /\ ~gameState'.isGameStarted =>
            /\ \A r \in DOMAIN requests' : requests'[r].phase = "done"
            /\ autoTimer' = NoTimer]_vars

\* startGame was refused with white's model chosen and black's not
C18_Witness ==
    /\ lastOp.op = "startRefused"
    /\ gameState.whiteModel # ""
    /\ gameState.blackModel = ""
    /\ ~gameState.isGameStarted

\* C19: whenever startGame succeeds, the resulting state has the initial
\* position, empty history, empty capturedPieces for both colors, empty
\* metrics, no draw offer, is started, not over and not paused, and has
\* white to move.
C19_StartIsFresh ==
    lastOp.op = "startGame" =>
      /\ gameState.history = << >>
      /\ gameState.position = "no"
      /\ gameState.capturedPieces = [white |-> << >>, black |-> << >>]
      /\ gameState.moveThinkingTokens = << >>
      /\ gameState.moveTimes = << >>
      /\ gameState.drawOffer = NoDrawOffer
      /\ ~gameState.awaitingDrawResponse
      /\ gameState.isGameStarted
      /\ ~gameState.isGameOver
      /\ ~gameState.isPaused
      /\ gameState.currentPlayer = "white"

\* a second game was started after the reset of a first one
C19_Witness ==
    /\ lastOp.op = "startGame"
    /\ Len(requests) > 0
    /\ gameState.isGameStarted
    /\ gameState.currentPlayer = "white"

\* C20: resetGame aborts the in-flight request, leaves whiteModel and
\* blackModel, and sets every other field of gameState to its initial value.
C20_ResetFrame ==
    [][lastOp'.op = "resetGame" =>
         /\ abortControllerRef' = 0
         /\ \A r \in DOMAIN requests' : requests'[r].phase = "done"
         /\ lastOp'.aborts # 0 => requests[lastOp'.aborts].phase # "done"
         /\ gameState'.whiteModel = gameState.whiteModel
         /\ gameState'.blackModel = gameState.blackModel
         /\ gameState'.history = << >>
         /\ gameState'.position = "no"
         /\ ~gameState'.isGameStarted
         /\ ~gameState'.isGameOver
         /\ ~gameState'.isPaused
         /\ ~gameState'.isThinking
         /\ ~gameState'.isStreaming
         /\ gameState'.currentPlayer = "white"
         /\ gameState'.gameResult = NoResult
         /\ gameState'.capturedPieces = [white |-> << >>, black |-> << >>]
         /\ gameState'.moveThinkingTokens = << >>
         /\ gameState'.moveTimes = << >>
         /\ gameState'.drawOffer = NoDrawOffer
         /\ ~gameState'.awaitingDrawResponse
         /\ gameState'.thinkingOutput = << >>
         /\ gameState'.errorMessage = << >>
         /\ gameState'.lastMove = << >>]_vars

\* a reset while the second request of the game was in flight: the request
\* was aborted, the models are kept
C20_Witness ==
    /\ lastOp.op = "resetGame"
    /\ lastOp.aborts = 2
    /\ gameState.whiteModel # ""
    /\ gameState.blackModel # ""
    /\ gameState.currentPlayer = "white"
    /\ ~gameState.isGameStarted


\* the steps that apply or drop a result event or a draw answer
ResponseSteps ==
    {"resultDiscarded", "resign", "drawOffer", "emptyResult", "moveApplied",
     "moveRejectedNull", "moveRejectedThrow", "drawDiscarded", "drawAccept",
     "drawDecline"}

\* C21: while the game is paused no move request and no draw-response
\* request is issued, and isPaused goes from true to false only by
\* togglePause or resetGame.
C21_PausedIssuesNothing ==
    [][/\ gameState.isPaused =>
            /\ lastOp'.op \notin StartSteps
            /\ Len(requests') = Len(requests)
       /\ (gameState.isPaused /\ ~gameState'.isPaused) =>
            lastOp'.op \in {"togglePause", "resetGame"}
       /\ gameState'.isPaused => autoTimer' = NoTimer]_vars

\* the game was paused while a request was due: nothing is scheduled
C21_Witness ==
    /\ lastOp.op = "togglePause"
    /\ gameState.isPaused
    /\ gameState.isGameStarted /\ ~gameState.isGameOver /\ ~gameState.isThinking
    /\ autoTimer = NoTimer

\* C22: togglePause changes isPaused and nothing else: it leaves the requests
\* and the controller, and a result that arrives while the game is paused is
\* dropped only for the reasons it is dropped when the game is not paused.
C22_PauseOnlyFlipsFlag ==
    [][/\ lastOp'.op = "togglePause" =>
            /\ gameState' = [gameState EXCEPT !.isPaused = ~gameState.isPaused]
            /\ requests' = requests
            /\ abortControllerRef' = abortControllerRef
            /\ thinkingOutputRef' = thinkingOutputRef
            /\ errorTimers' = errorTimers
       /\ lastOp'.op = "resultDiscarded" =>
            gameState.isGameOver \/ ~gameState.isThinking
       /\ lastOp'.op = "drawDiscarded" =>
            \/ gameState.isGameOver \/ ~gameState.isThinking
            \/ ~gameState.awaitingDrawResponse]_vars

\* the move of a request issued before the pause was applied during it
C22_Witness ==
    /\ lastOp.op = "moveApplied"
    /\ gameState.isPaused
    /\ Len(gameState.history) = 1
    /\ gameState.currentPlayer = "black"


\* C25 (as claimed): after a rejected move an error message is present at
\* once, whether the rules engine threw or returned no move.
C25_RejectedMoveShowsError ==
    lastOp.op \in RejectedSteps => gameState.errorMessage # << >>

\* C26: awaitingDrawResponse is true exactly when drawOffer.offered is true
\* and drawOffer.offeredBy is not null; the three are set by a draw offer and
\* cleared by accept, decline, a failed draw-response request and reset.
C26_DrawOfferFlagsAgree ==
    /\ gameState.awaitingDrawResponse = gameState.drawOffer.offered
    /\ gameState.drawOffer.offered = (gameState.drawOffer.offeredBy # "null")
    /\ lastOp.op = "drawOffer" =>
          /\ gameState.awaitingDrawResponse
          /\ gameState.drawOffer.offeredBy \in Colors
    /\ lastOp.op \in {"drawAccept", "drawDecline", "fetchFail", "resetGame"} =>
          /\ ~gameState.awaitingDrawResponse
          /\ gameState.drawOffer = NoDrawOffer

\* the draw-response request for white's offer failed
C26_Witness ==
    /\ lastOp.op = "fetchFail"
    /\ lastOp.req = 2
    /\ Len(gameState.moveTimes) = 1
    /\ gameState.history = << >>
    /\ gameState.drawOffer = NoDrawOffer

\* C27 (as claimed): the metrics recorded for the turn that produced the
\* i-th move are at index i: when a move is applied, the entry appended to
\* each metric sequence has the index of the move appended to the history.
C27_MetricsAlignedWithHistory ==
    lastOp.op = "moveApplied" =>
      /\ Len(gameState.moveThinkingTokens) = Len(gameState.history)
      /\ Len(gameState.moveTimes) = Len(gameState.history)

\* C28 (as claimed): when a move request or a draw-response request starts,
\* thinkingOutput and thinkingOutputRef are empty.
C28_ThinkingTextCleared ==
    lastOp.op \in StartSteps =>
      /\ gameState.thinkingOutput = << >>
      /\ thinkingOutputRef = << >>

\* C29: a result event of a stream that has already dispatched a result
\* changes no field of gameState, whatever the first result was.
C29_OneResultPerRequest ==
    [][(/\ lastOp'.op \in ResponseSteps
        /\ lastOp'.req \in DOMAIN requests
        /\ requests[lastOp'.req].resultSeen) =>
          /\ lastOp'.op = "resultDiscarded"
          /\ gameState' = gameState
          /\ errorTimers' = errorTimers
          /\ autoTimer' = autoTimer]_vars

\* white's move was applied, and a second result of the same stream dropped
C29_Witness ==
    /\ lastOp.op = "resultDiscarded"
    /\ lastOp.req = 1
    /\ ~gameState.isGameOver
    /\ Len(gameState.history) = 1
    /\ Len(gameState.moveTimes) = 1

\* C30: a pending auto-play timer is the one the effect set for the current
\* state, so it is pending only while the game is started, not over, not
\* paused and not thinking; the step in which it fires and issues a request
\* leaves no timer pending.
C30_TimerFollowsState ==
    /\ autoTimer # NoTimer =>
          /\ autoTimer = EffectTimer(gameState)
          /\ autoTimer.player = gameState.currentPlayer
          /\ autoTimer.kind = IF gameState.awaitingDrawResponse THEN "draw"
                                                                ELSE "move"
          /\ gameState.isGameStarted
          /\ ~gameState.isGameOver
          /\ ~gameState.isThinking
          /\ ~gameState.isPaused
    /\ lastOp.op \in StartSteps =>
          /\ autoTimer = NoTimer
          /\ gameState.isThinking

\* the game was resumed on black's turn: the timer for black is set again
C30_Witness ==
    /\ lastOp.op = "togglePause"
    /\ ~gameState.isPaused
    /\ autoTimer.kind = "move"
    /\ autoTimer.player = "black"


\* the complete lines of a text, as one split of the whole of it gives them
CompleteLines(text) == SubSeq(split(text, NL), 1, Len(split(text, NL)) - 1)

\* the part of the stream that was read
StreamRead == SubSeq(decoder.stream, 1, decoder.pos)

\* C23: however the stream text is cut into chunks, the lines handed to the
\* event parser are the complete lines of the text read so far, the buffer
\* holds what follows the last newline, and gameState and the ref are what
\* handling these lines once each gives; so they are when all of the text
\* arrives as one chunk.
C23_ChunkingIndependent ==
    decoder.stream # << >> =>
      /\ decoder.lines = CompleteLines(StreamRead)
      /\ decoder.buffer = split(StreamRead, NL)[Len(split(StreamRead, NL))]
      /\ gameState = StreamEvents(StreamStart, CompleteLines(StreamRead)).gs
      /\ thinkingOutputRef
           = StreamEvents(StreamStart, CompleteLines(StreamRead)).ref

\* a stream of one result line arrived in more than one chunk, and its move
\* was applied once
C23_Witness ==
    /\ decoder.stream = Join(<<ResultLine>>)
    /\ decoder.split
    /\ decoder.pos = Len(decoder.stream)
    /\ decoder.lines = <<ResultLine>>
    /\ gameState.history = <<"e4">>
    /\ Len(gameState.moveTimes) = 1

\* the lines that carry no event
SkippedLines == {CommentLine, DoneLine, BadLine}

NotSkipped(rawLine) == rawLine \notin SkippedLines

\* C24: a line without the data prefix, a [DONE] line and a line whose
\* payload is not JSON change nothing and do not stop the decoding: gameState
\* and the ref are what the other lines alone give, and the result event of
\* a later line is applied.
C24_SkippedLinesChangeNothing ==
    decoder.stream # << >> =>
      /\ gameState
           = StreamEvents(StreamStart, SelectSeq(decoder.lines, NotSkipped)).gs
      /\ thinkingOutputRef
           = StreamEvents(StreamStart, SelectSeq(decoder.lines, NotSkipped)).ref
      /\ \A i \in 1 .. Len(decoder.lines) :
            decoder.lines[i] \in SkippedLines =>
              \A j \in i + 1 .. Len(decoder.lines) :
                decoder.lines[j] \in {ResultLine, ResultLineCR} =>
                  /\ gameState.history = <<"e4">>
                  /\ ~gameState.isThinking

\* the move of a result line was applied after a line whose payload is not JSON
C24_Witness ==
    /\ decoder.lines = <<BadLine, ResultLine>>
    /\ gameState.history = <<"e4">>
    /\ ~gameState.isThinking


\* C36: isGameOver implies neither isThinking nor awaitingDrawResponse; a
\* game that is not started is not thinking, not over, not paused and has no
\* request outstanding; isStreaming implies isThinking.
C36_FlagCombinations ==
    /\ gameState.isGameOver =>
          ~gameState.isThinking /\ ~gameState.awaitingDrawResponse
    /\ ~gameState.isGameStarted =>
          /\ ~gameState.isThinking
          /\ ~gameState.isGameOver
          /\ ~gameState.isPaused
          /\ OpenRequests = {}
    /\ gameState.isStreaming => gameState.isThinking

\* C34: currentPlayer is white exactly when the history has even length.
C34_PlayerFollowsHistory ==
    (gameState.currentPlayer = "white") = (Len(gameState.history) % 2 = 0)


\* an accepted move passed the turn on, whatever else happened since
C34_Witness ==
    /\ gameState.currentPlayer = "black"
    /\ Len(gameState.history) = 1
    /\ Len(gameState.moveTimes) = 3

\* the game ended by a resignation while the stream of the request is open
C36_Witness ==
    /\ lastOp.op = "resign"
    /\ gameState.isGameOver
    /\ ~gameState.isThinking /\ ~gameState.isStreaming
    /\ OpenRequests # {}

\* C32: at most one error-clear timeout is pending, and it is the one
\* errorTimeoutRef holds: a new invalid-move error cancels the timeout of the
\* error before it, resetGame cancels the pending one, so the timeout that
\* fires is that of the newest error and none is pending after a reset.
C32_OneErrorTimer ==
    /\ Cardinality(errorTimers) <= 1
    /\ errorTimers \subseteq {errorTimeoutRef}
    /\ lastOp.op = "moveRejectedThrow" =>
          errorTimers = {lastOp.req} /\ errorTimeoutRef = lastOp.req
    /\ lastOp.op = "errorTimerFire" =>
          lastOp.req = errorTimeoutRef /\ gameState.errorMessage = << >>
    /\ lastOp.op = "resetGame" => errorTimers = {} /\ errorTimeoutRef = 0
    /\ ~gameState.isGameStarted => errorTimers = {}

\* a second invalid move was reported: its timeout is the only one pending
C32_Witness ==
    /\ lastOp.op = "moveRejectedThrow"
    /\ lastOp.req = 2
    /\ errorTimers = {2}
    /\ gameState.errorMessage # << >>

\* C33: when a move result is applied, the history it is appended to is the
\* history that was sent in its request, and the color the request was
\* issued for is the color whose turn it was.
C33_ResultMeetsItsPosition ==
    lastOp.op = "moveApplied" =>
      /\ lastOp.req \in OpenRequests
      /\ gameState.history # << >>
      /\ SubSeq(gameState.history, 1, Len(gameState.history) - 1)
           = requests[lastOp.req].history
      /\ gameState.currentPlayer = Opposite(requests[lastOp.req].player)

\* black's move was applied to the history its request had sent
C33_Witness ==
    /\ lastOp.op = "moveApplied"
    /\ requests[lastOp.req].player = "black"
    /\ requests[lastOp.req].history = <<"e4">>
    /\ gameState.history = <<"e4", "e4">>


\* the stream has a complete line that carries a result event
HasResultLine ==
    \E i \in 1 .. Len(CompleteLines(decoder.stream)) :
      LineEvent(CompleteLines(decoder.stream)[i]) = "result"

\* C35: when the stream has ended, gameState is what the newline-terminated
\* lines give: the text left in buffer is dropped without a decode attempt,
\* so a result whose line no newline follows is not applied.
C35_UnterminatedLineDropped ==
    decoder.done =>
      /\ decoder.lines = CompleteLines(decoder.stream)
      /\ gameState = StreamEvents(StreamStart, CompleteLines(decoder.stream)).gs
      /\ ~HasResultLine =>
            /\ gameState.history = << >>
            /\ gameState.moveTimes = << >>
            /\ gameState.isThinking
            /\ lastOp.op = "streamEndNoResult"

\* the stream ended after a result line without its newline
C35_Witness ==
    /\ decoder.done
    /\ decoder.stream = ResultLine
    /\ decoder.buffer = ResultLine
    /\ decoder.lines = << >>
    /\ gameState.history = << >>


\* the game is started, not over, not paused and not thinking, and the run
\* has requests left
RequestDue ==
    /\ gameState.isGameStarted
    /\ ~gameState.isGameOver
    /\ ~gameState.isPaused
    /\ ~gameState.isThinking
    /\ Len(requests) < MaxReq

\* a request for the model of the current player was just issued
RequestIssued ==
    /\ lastOp.op \in StartSteps
    /\ requests[lastOp.req].model
         = IF gameState.currentPlayer = "white" THEN gameState.whiteModel
                                                ELSE gameState.blackModel

====
